---- MODULE Spec2Model ----
(***************************************************************************)
(* archive-cp: the name grammar, the duplicate grouping, the planner and   *)
(* the executor, modelled from src/src/archive_cp.                         *)
(*                                                                         *)
(* Paths and file names are TLA+ strings ("/t/a.txt"); the target          *)
(* directory is "/t", the declared sources are the directories of SrcDirs  *)
(* given with the copy-contents marker ("/s1/."), so every file lands      *)
(* directly in the target and destdir is the target itself.  A file is a   *)
(* record of its content, its modification time in whole seconds and, for  *)
(* a symbolic link, the path it points to.  Hard links are not told apart  *)
(* from copies: link_file is modelled by its result, a second name with    *)
(* the same content and modification time.                                 *)
(***************************************************************************)
EXTENDS Integers, Sequences, FiniteSets, TLC

\* ------------------------------------------------------------------ bounds
MaxFiles == 2
MaxMtime == 2

\* ------------------------------------------------------------- characters
Char(s, i) == SubSeq(s, i, i)

Digits == {"0", "1", "2", "3", "4", "5", "6", "7", "8", "9"}

UpperCase == "ABCDEFGHIJKLMNOPQRSTUVWXYZ"

LowerCase == "abcdefghijklmnopqrstuvwxyz"

\* the characters of the model's names and paths, in code point order
AsciiOrder == "./0123456789" \o UpperCase \o LowerCase

Code(c) == CHOOSE i \in 1..Len(AsciiOrder) : Char(AsciiOrder, i) = c

IsDigit(c) == c \in Digits

IsAlnum(c) == c \in Digits \/ \E i \in 1..26 : c = Char(UpperCase, i) \/ c = Char(LowerCase, i)

AllDigits(s) == \A i \in 1..Len(s) : IsDigit(Char(s, i))

AllAlnum(s) == \A i \in 1..Len(s) : IsAlnum(Char(s, i))

\* str.__lt__: code point order, a proper prefix first
RECURSIVE StrLess(_, _)
StrLess(a, b) ==
    IF b = "" THEN FALSE
    ELSE IF a = "" THEN TRUE
    ELSE IF Head(a) # Head(b) THEN Code(Head(a)) < Code(Head(b))
    ELSE StrLess(Tail(a), Tail(b))

LowerChar(c) ==
    IF \E i \in 1..26 : Char(UpperCase, i) = c
    THEN Char(LowerCase, CHOOSE i \in 1..26 : Char(UpperCase, i) = c)
    ELSE c

\* str.lower()
RECURSIVE Lower(_)
Lower(s) == IF s = "" THEN "" ELSE LowerChar(Head(s)) \o Lower(Tail(s))

\* str.rfind(c): the last index of c in s, 0 when there is none
RFind(s, c) ==
    LET hits == {i \in 1..Len(s) : Char(s, i) = c}
    IN  IF hits = {} THEN 0 ELSE CHOOSE i \in hits : \A j \in hits : j <= i

StartsWith(s, prefix) ==
    Len(s) >= Len(prefix) /\ SubSeq(s, 1, Len(prefix)) = prefix

\* ------------------------------------------------------------------ paths
TargetDir == "/t"

SrcDirs == {"/s1", "/s2"}

\* PurePath.name and PurePath.parent of an absolute path
PathName(p) == SubSeq(p, RFind(p, "/") + 1, Len(p))

PathParent(p) == SubSeq(p, 1, RFind(p, "/") - 1)

Join(dir, name) == dir \o "/" \o name

\* pathutils.is_relative_to, both paths already resolved
IsUnder(p, dir) == StartsWith(p, dir \o "/")

\* PurePath.relative_to(dir) of a path under dir
RelativeTo(p, dir) == SubSeq(p, Len(dir) + 2, Len(p))

\* PurePath.parts without the root
RECURSIVE Parts(_)
Parts(p) ==
    IF p = "" THEN <<>>
    ELSE LET q == IF Head(p) = "/" THEN Tail(p) ELSE p
             cut == {i \in 1..Len(q) : Char(q, i) = "/"}
             n == IF cut = {} THEN Len(q) + 1 ELSE CHOOSE i \in cut : \A j \in cut : i <= j
         IN  IF q = "" THEN <<>>
             ELSE <<SubSeq(q, 1, n - 1)>> \o Parts(SubSeq(q, n + 1, Len(q)))

\* PurePath.__lt__: the parts compared as lists of strings
RECURSIVE PartsLess(_, _)
PartsLess(a, b) ==
    IF b = <<>> THEN FALSE
    ELSE IF a = <<>> THEN TRUE
    ELSE IF Head(a) # Head(b) THEN StrLess(Head(a), Head(b))
    ELSE PartsLess(Tail(a), Tail(b))

PathLess(p, q) == PartsLess(Parts(p), Parts(q))

\* PurePath.suffix and PurePath.stem of a file name
HasSuffix(name) == LET i == RFind(name, ".") IN 0 < i - 1 /\ i < Len(name)

Suffix(name) == IF HasSuffix(name) THEN SubSeq(name, RFind(name, "."), Len(name)) ELSE ""

Stem(name) == IF HasSuffix(name) THEN SubSeq(name, 1, RFind(name, ".") - 1) ELSE name

\* ----------------------------------------------------------- name grammar
\* [0-9]{8}T[0-9]{6}
IsTimeStamp(s) ==
    /\ Len(s) = 15
    /\ AllDigits(SubSeq(s, 1, 8))
    /\ Char(s, 9) = "T"
    /\ AllDigits(SubSeq(s, 10, 15))

\* [0-9a-zA-Z]{8}
IsChkTag(s) == Len(s) = 8 /\ AllAlnum(s)

\* s ends with \.[0-9]{8}T[0-9]{6}
EndsWithTime(s) ==
    /\ Len(s) >= 16
    /\ Char(s, Len(s) - 15) = "."
    /\ IsTimeStamp(SubSeq(s, Len(s) - 14, Len(s)))

\* s ends with \.[0-9]{8}T[0-9]{6}\.[0-9a-zA-Z]{8}
EndsWithTimeChk(s) ==
    /\ Len(s) >= 25
    /\ Char(s, Len(s) - 8) = "."
    /\ IsChkTag(SubSeq(s, Len(s) - 7, Len(s)))
    /\ EndsWithTime(SubSeq(s, 1, Len(s) - 9))

\* the trailing (\.[^.]+)?$ of both patterns: where a non-empty last
\* extension starts, 0 when the name has none
ExtStart(s) == LET i == RFind(s, ".") IN IF i > 0 /\ i < Len(s) THEN i ELSE 0

\* ADJUSTED_FN_TIME.match(name): the greedy (.*) takes the longest group 1,
\* so the form without an extension is tried first
MatchTime(name) ==
    LET e == ExtStart(name) IN
    IF EndsWithTime(name)
    THEN [ok |-> TRUE, g1 |-> SubSeq(name, 1, Len(name) - 16), g2 |-> ""]
    ELSE IF e > 0 /\ EndsWithTime(SubSeq(name, 1, e - 1))
    THEN [ok |-> TRUE, g1 |-> SubSeq(name, 1, e - 17), g2 |-> SubSeq(name, e, Len(name))]
    ELSE [ok |-> FALSE, g1 |-> "", g2 |-> ""]

\* ADJUSTED_FN_TIME_CHKSUM.match(name)
MatchTimeChksum(name) ==
    LET e == ExtStart(name) IN
    IF EndsWithTimeChk(name)
    THEN [ok |-> TRUE, g1 |-> SubSeq(name, 1, Len(name) - 25), g2 |-> ""]
    ELSE IF e > 0 /\ EndsWithTimeChk(SubSeq(name, 1, e - 1))
    THEN [ok |-> TRUE, g1 |-> SubSeq(name, 1, e - 26), g2 |-> SubSeq(name, e, Len(name))]
    ELSE [ok |-> FALSE, g1 |-> "", g2 |-> ""]

\* one turn of base_name's loop: name = m.group(1) + m.group(2) when m matched
Strip(m, name) == IF m.ok THEN m.g1 \o m.g2 ELSE name

StripTimeChksum(name) == Strip(MatchTimeChksum(name), name)

StripTime(name) == Strip(MatchTime(name), name)

\* base_name: both patterns in turn, the second on the result of the first
base_name(name) == StripTime(StripTimeChksum(name))

\* ------------------------------------------------------------ time format
Digit(d) == Char("0123456789", d + 1)

Pad2(n) == Digit((n \div 10) % 10) \o Digit(n % 10)

Pad4(n) == Pad2(n \div 100) \o Pad2(n % 100)

\* the civil date of a day count since 1970-01-01 (proleptic Gregorian, UTC)
CivilFromDays(days) ==
    LET z == days + 719468
        era == z \div 146097
        doe == z - era * 146097
        yoe == (doe - doe \div 1460 + doe \div 36524 - doe \div 146096) \div 365
        doy == doe - (365 * yoe + yoe \div 4 - yoe \div 100)
        mp == (5 * doy + 2) \div 153
        d == doy - (153 * mp + 2) \div 5 + 1
        m == IF mp < 10 THEN mp + 3 ELSE mp - 9
        y == yoe + era * 400 + (IF m <= 2 THEN 1 ELSE 0)
    IN  [year |-> y, month |-> m, day |-> d]

\* mtime(path).strftime("%Y%m%dT%H%M%S") of a modification time in seconds
StrfTime(t) ==
    LET date == CivilFromDays(t \div 86400)
        s == t % 86400
    IN  Pad4(date.year) \o Pad2(date.month) \o Pad2(date.day) \o "T"
        \o Pad2(s \div 3600) \o Pad2((s % 3600) \div 60) \o Pad2(s % 60)

\* ------------------------------------------------------------- checksums
Contents == {"X", "Y", "Z"}

\* sha256sum(path)[:8] of a file whose bytes are the content's one letter
Sha8(content) ==
    CASE content = "X" -> "4b68ab38"
      [] content = "Y" -> "18f5384d"
      [] content = "Z" -> "bbeebd87"

\* ------------------------------------------------------------ file system
\* a regular file has link = "", a symbolic link names the path it points to
File(content, mtime) == [content |-> content, mtime |-> mtime, link |-> ""]

Exists(files, p) == p \in DOMAIN files

\* Path.resolve() of a path of the model: one symbolic link is followed
Resolve(files, p) == IF Exists(files, p) /\ files[p].link # "" THEN files[p].link ELSE p

\* pathutils.is_relative_to(path, directory)
is_relative_to(files, p, dir) == IsUnder(Resolve(files, p), dir)

\* pathutils.mtime(path): lstat, the link itself
mtime(files, p) == files[p].mtime

\* the bytes open(path) reads: a link is followed
ContentOf(files, p) == files[Resolve(files, p)].content

Readable(files, p) == Exists(files, p) /\ Exists(files, Resolve(files, p))

Remove(files, p) == [q \in DOMAIN files \ {p} |-> files[q]]

Place(files, p, f) == [q \in DOMAIN files \cup {p} |-> IF q = p THEN f ELSE files[q]]

\* ------------------------------------------------------- sequences, dicts
SeqToSet(s) == {s[i] : i \in 1..Len(s)}

\* the concatenation of a sequence of sequences
Flatten(ss) ==
    LET RECURSIVE Go(_)
        Go(i) == IF i > Len(ss) THEN <<>> ELSE ss[i] \o Go(i + 1)
    IN  Go(1)

\* sorted(s, key=...): stable, ascending in the keys, key the function
\* that gives the integer key of every element of s
Sorted(s, key) ==
    LET RECURSIVE Go(_)
        Go(r) ==
            IF r = <<>> THEN <<>>
            ELSE LET i == CHOOSE i \in 1..Len(r) :
                              /\ \A j \in 1..Len(r) : key[r[i]] <= key[r[j]]
                              /\ \A j \in 1..(i - 1) : key[r[i]] < key[r[j]]
                 IN  <<r[i]>> \o Go(SubSeq(r, 1, i - 1) \o SubSeq(r, i + 1, Len(r)))
    IN  Go(s)

\* the place of every path of paths in the order of PurePath.__lt__
PathRank(paths) ==
    [p \in SeqToSet(paths) |-> Cardinality({q \in SeqToSet(paths) : PathLess(q, p)})]

\* a dict in insertion order: a sequence of [k, v] with distinct k
Keys(d) == [i \in 1..Len(d) |-> d[i].k]

Values(d) == [i \in 1..Len(d) |-> d[i].v]

Has(d, k) == \E i \in 1..Len(d) : d[i].k = k

Get(d, k) == d[CHOOSE i \in 1..Len(d) : d[i].k = k].v

\* d[k] = v: an existing key keeps its place
Put(d, k, v) ==
    IF Has(d, k) THEN [i \in 1..Len(d) |-> IF d[i].k = k THEN [k |-> k, v |-> v] ELSE d[i]]
    ELSE Append(d, [k |-> k, v |-> v])

\* d.update(e)
Update(d, e) ==
    LET RECURSIVE Go(_, _)
        Go(acc, i) == IF i > Len(e) THEN acc ELSE Go(Put(acc, e[i].k, e[i].v), i + 1)
    IN  Go(d, 1)

\* defaultdict(list): d[k].append(x)
AppendTo(d, k, x) == IF Has(d, k) THEN Put(d, k, Append(Get(d, k), x)) ELSE Put(d, k, <<x>>)

\* ---------------------------------------------------- duplicate detector
\* the files fclones reads: every regular file under the given directories
FilesUnder(files, roots) ==
    {p \in DOMAIN files : files[p].link = "" /\ \E r \in roots : IsUnder(p, r)}

\* the groups of the fdupes output for one order in which the detector met
\* the files: a group per content, singletons included
GroupByContent(files, order) ==
    LET RECURSIVE Go(_, _)
        Go(acc, i) ==
            IF i > Len(order) THEN acc
            ELSE Go(AppendTo(acc, files[order[i]].content, order[i]), i + 1)
    IN  Values(Go(<<>>, 1))

Orders(S) ==
    {o \in [1..Cardinality(S) -> S] : \A i, j \in 1..Cardinality(S) : o[i] = o[j] => i = j}

\* fclones(sources.keys()): the detector may list groups and members in any order
fclones(files, roots) ==
    {GroupByContent(files, o) : o \in Orders(FilesUnder(files, roots))}

\* --------------------------------------------------------------- grouping
\* file_destination(path, sources) for sources given as "<dir>/.": the
\* contents of every source directory map into the target directory
file_destination(p, sources) ==
    LET src == CHOOSE r \in sources : IsUnder(p, r)
    IN  Join(TargetDir, RelativeTo(p, src))

\* duplicate_groups: every detector group split by relative destination,
\* the pieces collected per destination in the order met
duplicate_groups(files, dupes, sources, ignore_case) ==
    LET relpath(item) ==
            IF is_relative_to(files, item, TargetDir)
            THEN base_name(RelativeTo(item, TargetDir))
            ELSE RelativeTo(file_destination(item, sources), TargetDir)
        key(item) == IF ignore_case THEN Lower(relpath(item)) ELSE relpath(item)
        RECURSIVE Regroup(_, _, _)
        Regroup(group, acc, i) ==
            IF i > Len(group) THEN acc
            ELSE Regroup(group, AppendTo(acc, key(group[i]), group[i]), i + 1)
        RECURSIVE Collect(_, _, _)
        Collect(reg, acc, i) ==
            IF i > Len(reg) THEN acc
            ELSE Collect(reg, AppendTo(acc, reg[i].k, reg[i].v), i + 1)
        RECURSIVE Go(_, _)
        Go(acc, g) ==
            IF g > Len(dupes) THEN acc
            ELSE Go(Collect(Regroup(dupes[g], <<>>, 1), acc, 1), g + 1)
    IN  Go(<<>>, 1)

\* ---------------------------------------------------------------- planner
\* deduplicate without its second sort: by path, then by modification time
deduplicate_no_target_sort(files, group, target_directory) ==
    LET by_path == Sorted(group, PathRank(group))
        by_time == Sorted(by_path, [p \in SeqToSet(group) |-> mtime(files, p)])
    IN  [selected |-> by_time[1], unselected |-> Tail(by_time)]

\* deduplicate(group, target_directory, timefunc): three stable sorts, by
\* path, then members under the target first (reverse=True keeps the order
\* of the members of equal key), then by modification time
deduplicate(files, group, target_directory) ==
    LET by_path == Sorted(group, PathRank(group))
        in_target_first ==
            Sorted(by_path,
                   [p \in SeqToSet(group) |->
                       IF is_relative_to(files, p, target_directory) THEN 0 ELSE 1])
        by_time == Sorted(in_target_first, [p \in SeqToSet(group) |-> mtime(files, p)])
    IN  [selected |-> by_time[1], unselected |-> Tail(by_time)]

\* add_time_stem_suffix(path, name, timefunc)
add_time_stem_suffix(files, path, name) ==
    Stem(name) \o "." \o StrfTime(mtime(files, path)) \o Suffix(name)

\* add_chksum_stem_suffix(path, name)
add_chksum_stem_suffix(files, path, name) ==
    Stem(name) \o "." \o Sha8(ContentOf(files, path)) \o Suffix(name)

\* unique_names_by, lines 158-165: the names one path has, and the lists
\* of the paths that still share a name
SplitUnique(by_newname) ==
    LET one == SelectSeq(by_newname, LAMBDA e : Len(e.v) = 1)
    IN  [unique |-> [i \in 1..Len(one) |-> [k |-> one[i].k, v |-> one[i].v[1]]],
         remaining |-> SelectSeq(by_newname, LAMBDA e : Len(e.v) # 1)]

\* unique_names_by(paths, namefunc), namefunc the function that gives the
\* new name of every path of paths
unique_names_by(paths, namefunc) ==
    LET RECURSIVE Go(_, _)
        Go(acc, i) ==
            IF i > Len(paths) THEN acc
            ELSE Go(AppendTo(acc, namefunc[paths[i]], paths[i]), i + 1)
    IN  SplitUnique(Go(<<>>, 1))

\* increase_uniqueness, lines 132-138: what one key's turn leaves in
\* uniques and by_name
Absorb(s, newname, r) ==
    LET RECURSIVE Merge(_, _)
        Merge(bn, j) ==
            IF j > Len(r.remaining) THEN bn
            ELSE Merge(IF Has(bn, r.remaining[j].k)
                       THEN Put(bn, r.remaining[j].k, Get(bn, r.remaining[j].k) \o r.remaining[j].v)
                       ELSE Put(bn, r.remaining[j].k, r.remaining[j].v),
                       j + 1)
    IN  [by_name |-> Merge(Put(s.by_name, newname, <<>>), 1),
         uniques |-> Update(s.uniques, r.unique)]

\* the two name functions unique_names passes to increase_uniqueness
NameFunc(files, by, path, name) ==
    IF by = "time"
    THEN add_time_stem_suffix(files, path, name)
    ELSE add_chksum_stem_suffix(files, path, name)

\* increase_uniqueness(by_name, uniques, namefunc), s the two dicts it
\* mutates and by the name function: the loop runs over a snapshot of the
\* items whose lists are the live lists, so a list extended before its turn
\* is renamed with what was added to it; the keys left with no path are
\* deleted at the end
increase_uniqueness(files, s, by) ==
    LET snapshot == Keys(s.by_name)
        RECURSIVE Go(_, _)
        Go(acc, i) ==
            IF i > Len(snapshot)
            THEN [acc EXCEPT !.by_name = SelectSeq(@, LAMBDA e : e.v # <<>>)]
            ELSE Go(Absorb(acc, snapshot[i],
                           unique_names_by(Get(acc.by_name, snapshot[i]),
                                           [q \in SeqToSet(Get(acc.by_name, snapshot[i])) |->
                                               NameFunc(files, by, q, snapshot[i])])),
                    i + 1)
    IN  Go(s, 1)

\* unique_names, lines 94-95: the paths by the base name of their own name
by_base_name(paths) ==
    LET RECURSIVE Go(_, _)
        Go(acc, i) ==
            IF i > Len(paths) THEN acc
            ELSE Go(AppendTo(acc, base_name(PathName(paths[i])), paths[i]), i + 1)
    IN  Go(<<>>, 1)

\* unique_names, lines 103-110: the first path of every list that is left
\* takes the name, the others are discarded; raised is the "wtf" exception
Leftover(s) ==
    LET RECURSIVE Go(_, _, _)
        Go(un, disc, i) ==
            IF i > Len(s.by_name)
            THEN [uniques |-> un, discarded |-> disc, raised |-> FALSE]
            ELSE IF Has(un, s.by_name[i].k)
            THEN [uniques |-> un, discarded |-> disc, raised |-> TRUE]
            ELSE Go(Put(un, s.by_name[i].k, s.by_name[i].v[1]),
                    disc \o Tail(s.by_name[i].v), i + 1)
    IN  Go(s.uniques, <<>>, 1)

\* unique_names(paths, timefunc): the timestamp, then the checksum
unique_names(files, paths) ==
    Leftover(
        increase_uniqueness(files,
            increase_uniqueness(files, [by_name |-> by_base_name(paths), uniques |-> <<>>],
                                "time"),
            "chksum"))

NoPlan ==
    [relpath |-> "", destdir |-> "", old_state |-> <<>>, new_state |-> <<>>,
     unselected |-> <<>>, files |-> <<>>, error |-> ""]

\* prepare_file_operations, lines 37-42
OldState(files, groups, destdir) ==
    LET under == SelectSeq(Flatten(groups), LAMBDA q : is_relative_to(files, q, destdir))
    IN  [i \in 1..Len(under) |-> RelativeTo(under[i], destdir)]

\* prepare_file_operations, lines 45-52: a representative per group
SelectFiles(files, groups, destdir) ==
    [g \in 1..Len(groups) |->
        IF Len(groups[g]) > 1
        THEN deduplicate(files, groups[g], destdir)
        ELSE [selected |-> groups[g][1], unselected |-> <<>>]]

\* prepare_file_operations, lines 58-62
NewState(relpath, destdir, old_state, picked, newest, u) ==
    IF u.raised
    THEN [NoPlan EXCEPT !.relpath = relpath, !.error = "wtf"]
    ELSE [relpath |-> relpath,
          destdir |-> destdir,
          old_state |-> old_state,
          new_state |-> Update(<<[k |-> base_name(PathName(newest)), v |-> newest]>>,
                               u.uniques),
          unselected |-> Flatten([g \in 1..Len(picked) |-> picked[g].unselected])
                         \o u.discarded,
          files |-> [g \in 1..Len(picked) |-> picked[g].selected],
          error |-> ""]

\* prepare_file_operations, lines 54-57
Newest(files, relpath, destdir, old_state, picked, by_mtime) ==
    NewState(relpath, destdir, old_state, picked, by_mtime[1],
             unique_names(files, Tail(by_mtime)))

ByMtime(files, relpath, destdir, old_state, picked) ==
    Newest(files, relpath, destdir, old_state, picked,
           Sorted([g \in 1..Len(picked) |-> picked[g].selected],
                  [p \in {picked[g].selected : g \in 1..Len(picked)} |-> 0 - mtime(files, p)]))

\* one turn of prepare_file_operations' loop: the plan it yields for a
\* destination, or the exception that ends the generator (lstat or open
\* of a member that is no longer there)
prepare_file_operations(files, relpath, groups) ==
    IF \E g \in 1..Len(groups) : \E i \in 1..Len(groups[g]) : ~Readable(files, groups[g][i])
    THEN [NoPlan EXCEPT !.relpath = relpath, !.error = "FileNotFoundError"]
    ELSE ByMtime(files, relpath, TargetDir, OldState(files, groups, TargetDir),
                 SelectFiles(files, groups, TargetDir))

\* --------------------------------------------------------------- executor
\* the modification time a file created during the run gets: later than
\* every modification time of the files the run starts with
Now == MaxMtime + 1

\* the directory tempfile.TemporaryDirectory(dir=target_directory) makes and
\* the file tempfile.NamedTemporaryFile(prefix=src.name + ".", dir=...) makes
StagingDir(target_directory) == Join(target_directory, "tmpdir0")

TempFile(src, dst) == Join(PathParent(dst), PathName(src) \o ".tmpfile0")

\* a path as os and pathlib see it: a relative one is taken from the
\* working directory of the process
FromCwd(cwd, p) == IF p # "" /\ Head(p) = "/" THEN p ELSE Join(cwd, p)

Call(op, src, dst, phase) == [op |-> op, src |-> src, dst |-> dst, phase |-> phase]

Say(line) == [op |-> "log", src |-> line, dst |-> "", phase |-> "log"]

Raise(st, what) == [st EXCEPT !.error = what]

Did(st, c) == [st EXCEPT !.ops = Append(@, c)]

\* one file-system call or log line of the executor; an exception ends
\* the run of the rest
Perform(st, c) ==
    IF st.error # "" THEN st
    ELSE CASE c.op = "log" -> [st EXCEPT !.log = Append(@, c.src)]
           [] c.op = "rename" ->
                \* os.rename(src, dst): dst is replaced
                IF ~Exists(st.files, c.src) THEN Raise(st, "FileNotFoundError")
                ELSE Did([st EXCEPT !.files = Place(Remove(@, c.src), c.dst, st.files[c.src])], c)
           [] c.op = "link" ->
                \* link_file(src, dst): os.link, or shutil.copy2 across devices
                IF ~Exists(st.files, c.src) THEN Raise(st, "FileNotFoundError")
                ELSE IF Exists(st.files, c.dst) THEN Raise(st, "FileExistsError")
                ELSE Did([st EXCEPT !.files = Place(@, c.dst, st.files[c.src])], c)
           [] c.op = "unlink" ->
                \* Path.unlink(missing_ok=True)
                IF Exists(st.files, c.dst)
                THEN Did([st EXCEPT !.files = Remove(@, c.dst)], c)
                ELSE st
           [] c.op = "symlink" ->
                \* dst.symlink_to(src)
                IF Exists(st.files, c.dst) THEN Raise(st, "FileExistsError")
                ELSE Did([st EXCEPT !.files =
                             Place(@, c.dst, [content |-> "", mtime |-> Now, link |-> c.src])], c)
           [] c.op = "create" ->
                Did([st EXCEPT !.files = Place(@, c.dst, File("", Now))], c)
           [] c.op = "mkdir" ->
                \* Path.mkdir(parents=True, exist_ok=True)
                IF c.dst \in st.dirs THEN st
                ELSE Did([st EXCEPT !.dirs = @ \cup {c.dst}], c)
           [] c.op = "mkdtemp" -> Did([st EXCEPT !.dirs = @ \cup {c.dst}], c)
           [] c.op = "rmtree" ->
                Did([st EXCEPT !.dirs = @ \ {c.dst},
                               !.files = [q \in {r \in DOMAIN @ : ~IsUnder(r, c.dst)} |-> @[q]]],
                    c)

PerformAll(st, calls) ==
    LET RECURSIVE Go(_, _)
        Go(acc, i) == IF i > Len(calls) THEN acc ELSE Go(Perform(acc, calls[i]), i + 1)
    IN  Go(st, 1)

\* the end of rename_postponed's with block: the staging directory is
\* removed, whether the body raised or not
Cleanup(body, tempdir) ==
    [Perform([body EXCEPT !.error = ""], Call("rmtree", "", tempdir, "cleanup"))
        EXCEPT !.error = body.error]

\* rename_postponed without the staging directory: every postponed source
\* is renamed onto its destination in turn
rename_postponed_unstaged(st, postponed, target_directory) ==
    PerformAll(st,
        <<Call("mkdir", "", target_directory, "setup")>>
        \o [i \in 1..Len(postponed) |->
               Call("rename", postponed[i].path, postponed[i].dest, "commit")])

\* rename_postponed(postponed, target_directory): every postponed source
\* is linked into the staging directory, then every staged file is renamed
\* onto its destination
rename_postponed(st, postponed, target_directory) ==
    Cleanup(
        PerformAll(st,
            <<Call("mkdir", "", target_directory, "setup"),
              Call("mkdtemp", "", StagingDir(target_directory), "setup")>>
            \o [i \in 1..Len(postponed) |->
                   Call("link", postponed[i].path,
                        Join(StagingDir(target_directory), PathName(postponed[i].dest)),
                        "stage")]
            \o Flatten([i \in 1..Len(postponed) |->
                   <<Call("unlink", "", postponed[i].dest, "commit"),
                     Call("rename",
                          Join(StagingDir(target_directory), PathName(postponed[i].dest)),
                          postponed[i].dest, "commit")>>])),
        StagingDir(target_directory))

\* copy_file(src, dst): a temporary name beside dst is linked to src and
\* renamed onto dst
copy_file(src, dst) ==
    <<Call("create", "", TempFile(src, dst), "external"),
      Call("unlink", "", TempFile(src, dst), "external"),
      Call("link", src, TempFile(src, dst), "external"),
      Call("unlink", "", dst, "external"),
      Call("rename", TempFile(src, dst), dst, "external")>>

\* transition_state, lines 26-41: the three lists the new state is sorted
\* into, and the debug lines of the sorting
Classify(files, target_directory, old_state, new_state, debug) ==
    LET RECURSIVE Go(_, _)
        Go(acc, i) ==
            IF i > Len(new_state) THEN acc
            ELSE LET newname == new_state[i].k
                     path == new_state[i].v
                     e == [dest |-> Join(target_directory, newname), path |-> path]
                 IN  Go(IF is_relative_to(files, path, target_directory)
                        THEN IF newname = RelativeTo(path, target_directory)
                             THEN [acc EXCEPT !.lines = @ \o
                                     IF debug
                                     THEN <<Say("skipped " \o path \o " (nothing to do)")>>
                                     ELSE <<>>]
                             ELSE IF newname \in SeqToSet(old_state)
                             THEN [acc EXCEPT !.postponed = Append(@, e),
                                              !.lines = @ \o
                                     IF debug
                                     THEN <<Say("postponed '" \o path \o "' (" \o e.dest
                                                \o " already exists)")>>
                                     ELSE <<>>]
                             ELSE [acc EXCEPT !.in_target = Append(@, e)]
                        ELSE [acc EXCEPT !.external = Append(@, e)],
                        i + 1)
    IN  Go([in_target |-> <<>>, postponed |-> <<>>, external |-> <<>>, lines |-> <<>>], 1)

Renamed(e) == Say("renamed '" \o e.path \o "' -> '" \o e.dest \o "'")

\* transition_state, lines 43-48
DirectRenames(st, c, verbose, dry_run) ==
    PerformAll(st,
        Flatten([i \in 1..Len(c.in_target) |->
            (IF dry_run THEN <<>>
             ELSE <<Call("rename", c.in_target[i].path, c.in_target[i].dest, "in_target")>>)
            \o (IF verbose \/ dry_run THEN <<Renamed(c.in_target[i])>> ELSE <<>>)]))

\* transition_state, lines 50-55
PostponedRenames(st, c, target_directory, verbose, dry_run) ==
    PerformAll(IF dry_run \/ st.error # "" THEN st
               ELSE rename_postponed(st, c.postponed, target_directory),
               IF dry_run \/ verbose
               THEN [i \in 1..Len(c.postponed) |-> Renamed(c.postponed[i])]
               ELSE <<>>)

\* transition_state, lines 57-67
ExternalWrites(st, c, symlink, verbose, dry_run) ==
    PerformAll(st,
        Flatten([i \in 1..Len(c.external) |->
            (IF dry_run THEN <<>>
             ELSE <<Call("mkdir", "", PathParent(c.external[i].dest), "external"),
                    Call("unlink", "", c.external[i].dest, "external")>>
                  \o (IF symlink
                      THEN <<Call("symlink", c.external[i].path, c.external[i].dest,
                                  "external")>>
                      ELSE copy_file(c.external[i].path, c.external[i].dest)))
            \o (IF verbose \/ dry_run
                THEN <<Say("'" \o c.external[i].path \o "' -> '" \o c.external[i].dest
                           \o "'")>>
                ELSE <<>>)]))

\* transition_state, line 69: the old state less the keys of the new
\* state, less the second members of the in_target pairs, which are the
\* absolute paths of the files renamed
ToRemove(old_state, new_state, in_target) ==
    (SeqToSet(old_state) \ SeqToSet(Keys(new_state)))
        \ {in_target[i].path : i \in 1..Len(in_target)}

\* transition_state, lines 70-76: every path of to_remove, which is
\* relative, is looked up and unlinked from the working directory
Removals(st0, cwd, removal_order, verbose, dry_run) ==
    LET RECURSIVE Sweep(_, _)
        Sweep(st, i) ==
            IF i > Len(removal_order) \/ st.error # "" THEN st
            ELSE Sweep(IF Readable(st.files, FromCwd(cwd, removal_order[i]))
                       THEN PerformAll(st,
                              (IF dry_run THEN <<>>
                               ELSE <<Call("unlink", "", FromCwd(cwd, removal_order[i]),
                                           "remove")>>)
                              \o (IF verbose \/ dry_run
                                  THEN <<Say("removed '" \o removal_order[i] \o "'")>>
                                  ELSE <<>>))
                       ELSE st,
                       i + 1)
    IN  Sweep(st0, 1)

\* transition_state with the external writes made first, before the
\* renames inside the target
Transition_external_first(st, c, cwd, target_directory, symlink, verbose, dry_run, removal_order) ==
    Removals(
        PostponedRenames(
            DirectRenames(ExternalWrites(PerformAll(st, c.lines), c, symlink, verbose, dry_run),
                          c, verbose, dry_run),
            c, target_directory, verbose, dry_run),
        cwd, removal_order, verbose, dry_run)

\* transition_state after the sorting of lines 26-41
Transition(st, c, cwd, target_directory, symlink, verbose, dry_run, removal_order) ==
    Removals(
        ExternalWrites(
            PostponedRenames(DirectRenames(PerformAll(st, c.lines), c, verbose, dry_run),
                             c, target_directory, verbose, dry_run),
            c, symlink, verbose, dry_run),
        cwd, removal_order, verbose, dry_run)

\* transition_state(target_directory, old_state, new_state, symlink,
\* verbose, debug, dry_run, log) run in the working directory cwd;
\* removal_order is the order in which the set to_remove is iterated
transition_state(files, dirs, cwd, target_directory, old_state, new_state, symlink, verbose, debug, dry_run, removal_order) ==
    Transition([files |-> files, dirs |-> dirs, ops |-> <<>>, log |-> <<>>, error |-> ""],
               Classify(files, target_directory, old_state, new_state, debug),
               cwd, target_directory, symlink, verbose, dry_run, removal_order)

\* ------------------------------------------------------------------ state
VARIABLES
    fs,       \* the files: path -> [content, mtime, link]
    dirs,     \* the directories
    fs0,      \* the files when the run started
    opts,     \* the options of the run and the working directory
    pc,       \* where the driver is
    run,      \* 1 for the first run, 2 for a run over its result
    dupes,    \* the detector's groups
    grouped,  \* duplicate_groups' result: relpath -> groups, in order
    idx,      \* the number of the destination the generator is at
    plan,     \* the plan the generator yielded last
    plans,    \* the plans consumed so far in this run
    ops,      \* the file-system calls of the last transition_state
    log,      \* the lines logged since the last plan was yielded
    call      \* the arguments and result of a function applied on its own

vars == <<fs, dirs, fs0, opts, pc, run, dupes, grouped, idx, plan, plans, ops, log, call>>

\* ----------------------------------------------------------------- inputs
\* the files a run may start with: RunPaths for the whole pipeline,
\* PlanPaths for the planner alone
RunPaths ==
    <<"/t/a.txt", "/t/a.19700101T000001.txt", "/s1/a.txt", "/s2/a.txt",
      "/s1/a.19700101T000001.txt">>

PlanPaths ==
    <<"/t/a.txt", "/t/a.19700101T000001.txt", "/t/a.19700101T000001.19700101T000002.txt",
      "/s1/a.txt", "/s2/a.txt", "/s2/A.txt", "/s1/a.19700101T000001.txt", "/s1/a">>

ContentOrder == <<"X", "Y", "Z">>

ContentIndex(c) == CHOOSE i \in 1..Len(ContentOrder) : ContentOrder[i] = c

\* contents are told apart only by equality, so of the file systems that
\* differ by a renaming of the contents one is kept: a file has one of the
\* contents of the files before it in cands, or the first content unused
Canonical(cands, f) ==
    \A i \in 1..Len(cands) :
        cands[i] \in DOMAIN f =>
            ContentIndex(f[cands[i]].content)
                <= 1 + Cardinality({f[cands[j]].content : j \in {h \in 1..(i - 1) : cands[h] \in DOMAIN f}})

\* a file system of at most MaxFiles regular files at paths of cands
IsFileSystem(cands, f) ==
    \E S \in SUBSET SeqToSet(cands) :
        /\ Cardinality(S) <= MaxFiles
        /\ f \in [S -> [content : Contents, mtime : 1..MaxMtime, link : {""}]]
        /\ Canonical(cands, f)

AllDirs == SrcDirs \cup {TargetDir}

\* main, lines 96-98, for the verbosity the command line gave
Verbosities == {"Quiet", "Normal", "Verbose", "Debug"}

MainOptions(verbosity, dry_run, ignore_case) ==
    [entry |-> "main",
     debug |-> verbosity = "Debug",
     verbose |-> verbosity \in {"Verbose", "Debug"},
     quiet |-> verbosity = "Quiet",
     symlink |-> FALSE,
     dry_run |-> dry_run,
     ignore_case |-> ignore_case,
     cwd |-> TargetDir,
     sources |-> AllDirs]

\* the same pipeline with transition_state called as its signature reads:
\* symlink, verbose, debug and dry_run each bound to its own value
ApiDefault ==
    [entry |-> "api", debug |-> FALSE, verbose |-> FALSE, quiet |-> FALSE, symlink |-> FALSE,
     dry_run |-> FALSE, ignore_case |-> FALSE, cwd |-> TargetDir, sources |-> AllDirs]

\* the runs explored: the default and the runs that differ from it in one
\* option, and the driver with and without --dry-run and --debug
Profiles ==
    {ApiDefault,
     [ApiDefault EXCEPT !.symlink = TRUE],
     [ApiDefault EXCEPT !.verbose = TRUE],
     [ApiDefault EXCEPT !.debug = TRUE],
     [ApiDefault EXCEPT !.dry_run = TRUE],
     [ApiDefault EXCEPT !.ignore_case = TRUE],
     [ApiDefault EXCEPT !.cwd = "/s1"]}
    \cup {MainOptions(v, d, FALSE) : v \in {"Normal", "Debug"}, d \in BOOLEAN}

NoCall == [fn |-> "none"]

Idle ==
    /\ dupes = <<>>
    /\ grouped = <<>>
    /\ idx = 0
    /\ plan = NoPlan
    /\ plans = <<>>
    /\ ops = <<>>
    /\ log = <<>>

Init ==
    /\ IsFileSystem(RunPaths, fs)
    /\ dirs = AllDirs
    /\ fs0 = fs
    /\ opts \in Profiles
    /\ pc = "start"
    /\ run = 1
    /\ call = NoCall
    /\ Idle

\* ----------------------------------------------------------------- driver
\* main, line 115: the detector is run on the sources
Fclones ==
    /\ pc = "start"
    /\ \E d \in fclones(fs, opts.sources) : dupes' = d
    /\ pc' = "clustered"
    /\ UNCHANGED <<fs, dirs, fs0, opts, run, grouped, idx, plan, plans, ops, log, call>>

\* main, lines 116-121
Group ==
    /\ pc = "clustered"
    /\ grouped' = duplicate_groups(fs, dupes, opts.sources, opts.ignore_case)
    /\ pc' = "grouped"
    /\ UNCHANGED <<fs, dirs, fs0, opts, run, dupes, idx, plan, plans, ops, log, call>>

\* main, line 122: the generator is resumed and plans the next destination
\* from the files as they are now
Prepare ==
    /\ pc \in {"grouped", "applied"}
    /\ idx < Len(grouped)
    /\ idx' = idx + 1
    /\ plan' = prepare_file_operations(fs, grouped[idx + 1].k, grouped[idx + 1].v)
    /\ pc' = IF plan'.error = "" THEN "yielded" ELSE "raised"
    /\ log' = <<>>
    /\ ops' = <<>>
    /\ UNCHANGED <<fs, dirs, fs0, opts, run, dupes, grouped, plans, call>>

\* main, lines 126-128
EchoUnselected ==
    IF opts.debug
    THEN [i \in 1..Len(plan.unselected) |->
             "skipped " \o plan.unselected[i] \o " (unselected duplicate)"]
    ELSE <<>>

\* main, line 130: transition_state(destdir, old, new, verbose, debug,
\* dry_run, log=click.echo) gives six positional arguments to a function of
\* seven, so symlink, verbose and debug are bound and dry_run is not, and
\* the call raises TypeError before the body runs
MainCall ==
    /\ pc = "yielded"
    /\ opts.entry = "main"
    /\ log' = EchoUnselected
    /\ plans' = Append(plans, plan)
    /\ pc' = "TypeError"
    /\ UNCHANGED <<fs, dirs, fs0, opts, run, dupes, grouped, idx, plan, ops, call>>

\* the loop body with the call bound as the signature reads
Apply ==
    /\ pc = "yielded"
    /\ opts.entry = "api"
    /\ \E removal_order \in
           Orders(ToRemove(plan.old_state, plan.new_state,
                           Classify(fs, plan.destdir, plan.old_state, plan.new_state,
                                    FALSE).in_target)) :
         LET r == transition_state(fs, dirs, opts.cwd, plan.destdir, plan.old_state,
                                   plan.new_state, opts.symlink, opts.verbose, opts.debug,
                                   opts.dry_run, removal_order)
         IN  /\ fs' = r.files
             /\ dirs' = r.dirs
             /\ ops' = r.ops
             /\ log' = EchoUnselected \o r.log
             /\ pc' = IF r.error = "" THEN "applied" ELSE "raised"
    /\ plans' = Append(plans, plan)
    /\ UNCHANGED <<fs0, opts, run, dupes, grouped, idx, plan, call>>

\* a consumer that only collects the plans
Collect ==
    /\ pc = "yielded"
    /\ opts.entry = "plan"
    /\ plans' = Append(plans, plan)
    /\ pc' = "applied"
    /\ UNCHANGED <<fs, dirs, fs0, opts, run, dupes, grouped, idx, plan, ops, log, call>>

\* the generator is exhausted: main returns
Finish ==
    /\ pc \in {"grouped", "applied"}
    /\ idx = Len(grouped)
    /\ pc' = "done"
    /\ UNCHANGED <<fs, dirs, fs0, opts, run, dupes, grouped, idx, plan, plans, ops, log, call>>

\* the tool is run again on the result of a completed run, with the same
\* sources or on the target alone
Rerun ==
    /\ pc = "done"
    /\ run = 1
    /\ opts.entry = "api"
    /\ ~opts.dry_run
    /\ ~opts.symlink
    /\ \E src \in {AllDirs, {TargetDir}} : opts' = [opts EXCEPT !.sources = src]
    /\ run' = 2
    /\ fs0' = fs
    /\ pc' = "start"
    /\ dupes' = <<>>
    /\ grouped' = <<>>
    /\ idx' = 0
    /\ plan' = NoPlan
    /\ plans' = <<>>
    /\ ops' = <<>>
    /\ log' = <<>>
    /\ UNCHANGED <<fs, dirs, call>>

Next == Fclones \/ Group \/ Prepare \/ MainCall \/ Apply \/ Finish \/ Rerun

Spec == Init /\ [][Next]_vars

\* the planner alone: list(prepare_file_operations(...)) over unchanged files
InitPlan ==
    /\ IsFileSystem(PlanPaths, fs)
    /\ dirs = AllDirs
    /\ fs0 = fs
    /\ \E ic \in BOOLEAN : opts = [ApiDefault EXCEPT !.entry = "plan", !.ignore_case = ic]
    /\ pc = "start"
    /\ run = 1
    /\ call = NoCall
    /\ Idle

NextPlan == Fclones \/ Group \/ Prepare \/ Collect \/ Finish

SpecPlan == InitPlan /\ [][NextPlan]_vars

\* ---------------------------------------------------- the name functions
\* the names a file may have before the tool suffixes it
NaturalNames == {"a", "a.txt", "a.tar.gz", "a.markdown", ".bashrc", "A.txt", "b.c"}

\* one file of some name, content and modification time, and its name as
\* the argument of the first name function
InitNames ==
    /\ \E n \in NaturalNames, c \in Contents, m \in 1..MaxMtime :
          /\ fs = [p \in {Join("/s1", n)} |-> File(c, m)]
          /\ call = [fn |-> "natural", natural |-> n, path |-> Join("/s1", n), result |-> n]
    /\ dirs = AllDirs
    /\ fs0 = fs
    /\ opts = ApiDefault
    /\ pc = "call"
    /\ run = 1
    /\ Idle

\* increase_uniqueness' first pass: add_time_stem_suffix(path, name, mtime)
AddTimeStemSuffix ==
    /\ call.fn = "natural"
    /\ call' = [call EXCEPT !.fn = "add_time_stem_suffix",
                            !.result = add_time_stem_suffix(fs, call.path, call.natural)]
    /\ UNCHANGED <<fs, dirs, fs0, opts, pc, run, dupes, grouped, idx, plan, plans, ops, log>>

\* increase_uniqueness' second pass, on the name the first pass gave:
\* add_chksum_stem_suffix(path, name)
AddChksumStemSuffix ==
    /\ call.fn = "add_time_stem_suffix"
    /\ call' = [call EXCEPT !.fn = "add_chksum_stem_suffix",
                            !.result = add_chksum_stem_suffix(fs, call.path, call.result)]
    /\ UNCHANGED <<fs, dirs, fs0, opts, pc, run, dupes, grouped, idx, plan, plans, ops, log>>

\* base_name of a suffixed name
BaseName ==
    /\ call.fn \in {"add_time_stem_suffix", "add_chksum_stem_suffix"}
    /\ call' = [call EXCEPT !.fn = "base_name", !.result = base_name(call.result)]
    /\ UNCHANGED <<fs, dirs, fs0, opts, pc, run, dupes, grouped, idx, plan, plans, ops, log>>

NextNames == AddTimeStemSuffix \/ AddChksumStemSuffix \/ BaseName

SpecNames == InitNames /\ [][NextNames]_vars

\* ------------------------------------------------- deduplicate on its own
\* the paths a cluster is drawn from, and the size of the largest cluster
ClusterPaths == <<"/t/a.txt", "/t/a.19700101T000001.txt", "/s1/a.txt", "/s2/a.txt">>

MaxCluster == 3

\* a cluster of files of one content, in the order the detector lists it
InitDedup ==
    /\ \E S \in SUBSET SeqToSet(ClusterPaths) :
          /\ Cardinality(S) \in 2..MaxCluster
          /\ fs \in [S -> [content : {"X"}, mtime : 1..MaxMtime, link : {""}]]
    /\ \E g \in Orders(DOMAIN fs) :
          call = [fn |-> "group", group |-> g, selected |-> "", unselected |-> <<>>]
    /\ dirs = AllDirs
    /\ fs0 = fs
    /\ opts = ApiDefault
    /\ pc = "call"
    /\ run = 1
    /\ Idle

\* prepare_file_operations, line 48: deduplicate(group, destdir, timefunc=mtime)
Deduplicate ==
    /\ call.fn = "group"
    /\ call' = [call EXCEPT !.fn = "deduplicate",
                            !.selected = deduplicate(fs, call.group, TargetDir).selected,
                            !.unselected = deduplicate(fs, call.group, TargetDir).unselected]
    /\ UNCHANGED <<fs, dirs, fs0, opts, pc, run, dupes, grouped, idx, plan, plans, ops, log>>

NextDedup == Deduplicate

SpecDedup == InitDedup /\ [][NextDedup]_vars

\* ----------------------------------------- transition_state, plan by plan
\* the files of one destination name, two in the target and one in a
\* source: a run of this specification starts with any of them
OrderPaths == <<"/t/a.txt", "/t/a.19700101T000001.txt", "/s1/a.txt">>

\* every plan applied by transition_state called as its signature reads
InitOrder ==
    /\ \E S \in SUBSET SeqToSet(OrderPaths) :
          fs \in [S -> [content : Contents, mtime : 1..MaxMtime, link : {""}]]
    /\ Canonical(OrderPaths, fs)
    /\ dirs = AllDirs
    /\ fs0 = fs
    /\ opts \in {ApiDefault, [ApiDefault EXCEPT !.symlink = TRUE]}
    /\ pc = "start"
    /\ run = 1
    /\ call = NoCall
    /\ Idle

NextOrder == Fclones \/ Group \/ Prepare \/ Apply \/ Finish

SpecOrder == InitOrder /\ [][NextOrder]_vars

\* ----------------------------------------------------------------- claims
\* C1: after a completed run that is not a dry run, the content of every
\* file that was under a declared source before the run is the content of
\* a file under the target
NoDataLoss ==
    (pc = "done" /\ ~opts.dry_run)
        => \A p \in DOMAIN fs0 :
              (\E d \in opts.sources : IsUnder(p, d))
                  => \E q \in DOMAIN fs :
                        /\ IsUnder(q, TargetDir)
                        /\ Readable(fs, q)
                        /\ ContentOf(fs, q) = fs0[p].content

\* C2: over all the plans yielded for one grouping, the destinations
\* destdir/newname of the new-state entries are pairwise distinct
DestinationsDistinct ==
    \A i, j \in 1..Len(plans) :
        \A m \in 1..Len(plans[i].new_state), n \in 1..Len(plans[j].new_state) :
            (i # j \/ m # n)
                => Join(plans[i].destdir, plans[i].new_state[m].k)
                       # Join(plans[j].destdir, plans[j].new_state[n].k)

\* the names that count as the natural name of a plan's bucket: the bucket
\* key and its base name, compared without case when the grouping ignores it
IsNaturalKey(pl, k) ==
    LET fold(n) == IF opts.ignore_case THEN Lower(n) ELSE n
    IN  fold(k) \in {fold(PathName(pl.relpath)), fold(base_name(PathName(pl.relpath)))}

IsSuffixedKey(k) == MatchTime(k).ok \/ MatchTimeChksum(k).ok

\* C3: in every plan of a bucket with more than one representative,
\* exactly one new-state entry has the natural name as its key, its value
\* is a representative no other is newer than, and every other
\* representative is the value of a suffixed key
NewestKeepsName ==
    \A n \in 1..Len(plans) :
        LET pl == plans[n]
            natural == {i \in 1..Len(pl.new_state) : IsNaturalKey(pl, pl.new_state[i].k)}
        IN  (pl.error = "" /\ Len(pl.files) > 1)
                => /\ Cardinality(natural) = 1
                   /\ \A i \in natural :
                         /\ pl.new_state[i].v \in SeqToSet(pl.files)
                         /\ \A r \in SeqToSet(pl.files) :
                               mtime(fs, r) <= mtime(fs, pl.new_state[i].v)
                         /\ \A r \in SeqToSet(pl.files) \ {pl.new_state[i].v} :
                               \E j \in 1..Len(pl.new_state) :
                                   /\ pl.new_state[j].v = r
                                   /\ j \notin natural
                                   /\ IsSuffixedKey(pl.new_state[j].k)

\* C4: a run on the result of a completed run changes no file, and calls
\* nothing but the making and the removal of the empty staging directory
RerunIsNoOp ==
    run = 2
        => /\ fs = fs0
           /\ \A i \in 1..Len(ops) : ops[i].phase \in {"setup", "cleanup"}

\* C5: base_name of a natural name suffixed with the timestamp, and of
\* that name suffixed with the checksum, is the natural name
BaseNameLeftInverse ==
    call.fn = "base_name" => call.result = call.natural

\* C6: the representative deduplicate selects has the least modification
\* time of the cluster; of the members with that time it is one under the
\* target directory when there is one, and of those the one with the
\* smallest path; the unselected are all the other members
OldestKept ==
    call.fn = "deduplicate"
        => LET g == SeqToSet(call.group)
               oldest == {p \in g : \A q \in g : fs[p].mtime <= fs[q].mtime}
               preferred ==
                   IF \E p \in oldest : IsUnder(p, TargetDir)
                   THEN {p \in oldest : IsUnder(p, TargetDir)}
                   ELSE oldest
           IN  /\ call.selected \in preferred
               /\ \A q \in preferred \ {call.selected} : StrLess(call.selected, q)
               /\ SeqToSet(call.unselected) = g \ {call.selected}
               /\ Len(call.unselected) = Len(call.group) - 1

\* deduplicate has run on a cluster of three files of one modification
\* time, two of them under the target, and selected a member that is not
\* the first the detector listed
OldestKeptWitness ==
    /\ call.fn = "deduplicate"
    /\ Len(call.group) = 3
    /\ \A p \in DOMAIN fs : fs[p].mtime = 1
    /\ Cardinality({p \in DOMAIN fs : IsUnder(p, TargetDir)}) = 2
    /\ call.selected # call.group[1]

\* the two entries of a plan's new state swap names: the value of each is
\* the destination of the other
Swaps(pl, i, j) ==
    /\ i # j
    /\ pl.new_state[i].v = Join(pl.destdir, pl.new_state[j].k)
    /\ pl.new_state[j].v = Join(pl.destdir, pl.new_state[i].k)

\* C7: when transition_state applies, without dry-run, a plan in which two
\* files of the target swap names, each content is afterwards under the
\* name the new state gives it and the staging directory is gone
SwapKeepsBoth ==
    [][(pc = "yielded" /\ pc' # "yielded" /\ opts.entry = "api" /\ ~opts.dry_run)
          => \A i, j \in 1..Len(plan.new_state) :
                Swaps(plan, i, j)
                    => /\ Exists(fs', Join(plan.destdir, plan.new_state[i].k))
                       /\ fs'[Join(plan.destdir, plan.new_state[i].k)].content
                              = fs[plan.new_state[i].v].content
                       /\ StagingDir(plan.destdir) \notin dirs'
                       /\ \A q \in DOMAIN fs' : ~IsUnder(q, StagingDir(plan.destdir))]_vars

\* a swap of two files of different contents has been applied
SwapApplied ==
    /\ pc = "applied"
    /\ opts.entry = "api"
    /\ ~opts.dry_run
    /\ \E i, j \in 1..Len(plan.new_state) :
          /\ Swaps(plan, i, j)
          /\ fs[plan.new_state[i].v].content # fs[plan.new_state[j].v].content
    /\ \E i \in 1..Len(ops) : ops[i].phase = "commit" /\ ops[i].op = "rename"

\* the log lines of what a plan is to do: a line per rename of a file of
\* the target, per external write and per removal
PlannedLines(pl) ==
    {IF IsUnder(pl.new_state[i].v, pl.destdir)
     THEN "renamed '" \o pl.new_state[i].v \o "' -> '"
              \o Join(pl.destdir, pl.new_state[i].k) \o "'"
     ELSE "'" \o pl.new_state[i].v \o "' -> '" \o Join(pl.destdir, pl.new_state[i].k) \o "'" :
        i \in {n \in 1..Len(pl.new_state) :
                  pl.new_state[n].v # Join(pl.destdir, pl.new_state[n].k)}}
    \cup {"removed '" \o e \o "'" : e \in SeqToSet(pl.old_state) \ SeqToSet(Keys(pl.new_state))}

\* C8: in a run started with the dry-run flag, once a plan has been handed
\* to transition_state the files are the files the run started with and
\* the log holds the line of every rename, external write and removal of
\* the plan
DryRunLogsPlan ==
    (opts.dry_run /\ pc \in {"applied", "TypeError"})
        => /\ fs = fs0
           /\ dirs = AllDirs
           /\ PlannedLines(plan) \subseteq SeqToSet(log)

\* C9: after transition_state has applied a plan, no old-state entry that
\* is not a key of the new state is left in destdir, and nothing else has
\* been deleted by the removal step
RemovesSuperseded ==
    (pc = "applied" /\ opts.entry = "api" /\ ~opts.dry_run)
        => LET superseded == SeqToSet(plan.old_state) \ SeqToSet(Keys(plan.new_state))
           IN  /\ \A e \in superseded : ~Exists(fs, Join(plan.destdir, e))
               /\ \A i \in 1..Len(ops) :
                     ops[i].phase = "remove"
                         => \E e \in superseded : ops[i].dst = Join(plan.destdir, e)

\* C10: no plan ends in the internal exception, and every representative
\* of a plan's bucket is the value of exactly one new-state key or is
\* among the unselected
NoKeyTwice ==
    \A n \in 1..Len(plans) :
        /\ plans[n].error # "wtf"
        /\ \A r \in SeqToSet(plans[n].files) :
              \/ Cardinality({i \in 1..Len(plans[n].new_state) :
                                  plans[n].new_state[i].v = r}) = 1
              \/ r \in SeqToSet(plans[n].unselected)

\* the place of a file-system call in the order of transition_state: the
\* direct renames, the staging, the renames out of the staging directory,
\* the external writes, the removals; 0 for the making and the removal of
\* the staging directory
PhaseRank(phase) ==
    CASE phase = "in_target" -> 1
      [] phase = "stage" -> 2
      [] phase = "commit" -> 3
      [] phase = "external" -> 4
      [] phase = "remove" -> 5
      [] OTHER -> 0

\* C11: of the file-system calls of one execution of transition_state,
\* every direct rename comes before every staging or commit of a postponed
\* rename, every staging before every rename out of the staging directory,
\* every external write after all of these, and every removal last
CallsInOrder ==
    \A i, j \in 1..Len(ops) :
        (i < j /\ PhaseRank(ops[i].phase) > 0 /\ PhaseRank(ops[j].phase) > 0)
            => PhaseRank(ops[i].phase) <= PhaseRank(ops[j].phase)

\* one execution has made a direct rename, staged and committed a
\* postponed rename, written an external file and removed a superseded one
AllPhasesApplied ==
    /\ pc = "applied"
    /\ \A r \in 1..5 : \E i \in 1..Len(ops) : PhaseRank(ops[i].phase) = r
    /\ \E i \in 1..Len(ops) : ops[i].phase = "external" /\ ops[i].op = "rename"

====
